---- MODULE Spec2Model ----
(***************************************************************************)
(* ip-country-api: the provider client (cache, rate-limit window, error    *)
(* envelopes), the client orchestrator (failover with cache transfer) and  *)
(* the route controller that sends every request through both.             *)
(*                                                                         *)
(* JavaScript runs one task to completion before the next one starts, and  *)
(* a getCountry call suspends only at its two awaits (fetch and            *)
(* response.json()).  The synchronous part of a request is therefore one   *)
(* uninterrupted run; it is split here into one step per Date.now() read,  *)
(* so that the clock (action Tick) may advance between two reads while no  *)
(* other task does.  Settling of the awaits happens only while no          *)
(* synchronous run is in progress.                                         *)
(***************************************************************************)
EXTENDS Integers, Sequences, FiniteSets, Bags, TLC

\* ------------------------------------------------------------------ bounds
MaxRateLimit == 2
MaxTime == 2
MaxPending == 2
\* the length of a rate-limit window, in clock ticks
RateLimitTimeframe == 1

\* ------------------------------------------------------- program constants
NumClients == 2

Clients == 1..NumClients
\* the addresses requests ask for
IPs == {1, 2}
\* Map.get of a missing key, or a field a payload does not hold: undefined,
\* which is falsy
NoName == <<>>
\* a field that was never assigned (falsy, as undefined is)
Unset == 0

VARIABLES
  now,              \* Date.now()
  rateLimit,        \* _rateLimit of each client
  rateLimitCount,   \* _rateLimitCount
  rateLimitExpiry,  \* _rateLimitExpiry, Unset before the first gated call
  cache,            \* _cache: IP -> country name, NoName when absent
  activeApiClient,  \* #activeApiClient
  pending,          \* bag of getCountry calls suspended at an await
  cur,              \* the synchronous run in progress and its position
  returned,         \* what the step just taken handed back to its caller
  acc,              \* the access of the apiClient getter in progress or just made
  fetches,          \* upstream fetches issued since the client's last window reset
  calls             \* calls that evaluated the gate since the last window reset

vars == <<now, rateLimit, rateLimitCount, rateLimitExpiry, cache,
          activeApiClient, pending, cur, returned, acc, fetches, calls>>

\* ----------------------------------------------------------------- values
\* cur: pc is the position of the run, client the client the getter returned,
\* ip the requested address, i the index #apiClients.find is at; reset tells
\* that this call reset the window and was the count the reset found; from is
\* the client that was active when the request came in and t0 the clock the
\* getter's first read saw
Idle ==
  [pc |-> "idle", client |-> 0, ip |-> 0, i |-> 0, reset |-> FALSE, was |-> 0,
   from |-> 0, t0 |-> 0]
NoReturn == [op |-> "none"]
\* acc: t0 is the clock at the getter's first read, from the client active
\* before the access, transfers the transferCache calls the access made
NoAccess == [t0 |-> 0, from |-> 0, transfers |-> <<>>, open |-> FALSE]

\* the two provider clients the controller constructs, in list order
Variant(c) == IF c = 1 THEN "ipstack" ELSE "ipxapi"

\* new ApiError(message, info): status defaults to 400
ApiError(message, status) ==
  [message |-> message, status |-> IF status = Unset THEN 400 ELSE status]

\* an Error that is not an ApiError (TypeError, SyntaxError): no status
PlainError(message) == [message |-> message, status |-> Unset]

\* what the upstream may answer to a fetch: a rejection or a response
Responses ==
  { [kind |-> "rejected"],
    [kind |-> "response", ok |-> TRUE, status |-> 200, statusText |-> "OK"],
    [kind |-> "response", ok |-> FALSE, status |-> 401, statusText |-> "Unauthorized"],
    [kind |-> "response", ok |-> FALSE, status |-> 500,
     statusText |-> "Internal Server Error"] }

\* the country name provider c's database holds for ip: each provider spells
\* names its own way, so two providers may disagree about one address
CountryName(c, ip) == <<"country", c, ip>>

\* the JSON values the body of provider c's answer for ip may hold, in that
\* provider's shape
Payloads(c, ip) ==
  IF c = 1
    THEN { [country_name |-> CountryName(c, ip)],
           <<>>,
           [error |-> [info |-> "Invalid access key", type |-> "invalid_access_key"]],
           [error |-> [type |-> "invalid_access_key"]],
           [error |-> [info |-> "Invalid IP address", type |-> "invalid_ip_address"]],
           [error |-> [type |-> "invalid_ip_address"]],
           [error |-> <<>>] }
    ELSE { [success |-> TRUE, country |-> CountryName(c, ip)],
           <<>>,
           [success |-> FALSE, message |-> "Invalid IP"],
           [success |-> FALSE],
           [success |-> FALSE, country |-> CountryName(c, ip)] }

\* what response.json() may settle to
Bodies(c, ip) ==
  { [kind |-> "unparsable"] } \cup
  { [kind |-> "object", value |-> p] : p \in Payloads(c, ip) }

\* how a suspended call may go on: the fetch's answer and, when that is an
\* ok response, the body
Outcomes(c, ip) ==
  { [response |-> r] : r \in { x \in Responses : x.kind = "rejected" \/ ~x.ok } } \cup
  { [response |-> r, body |-> b] :
      r \in { x \in Responses : x.kind = "response" /\ x.ok }, b \in Bodies(c, ip) }

\* ------------------------------------------------------------ formatResult
Has(r, f) == f \in DOMAIN r

MetaKeys == {"apiUrl", "cache", "rateLimit", "rateLimitCount"}

\* mutant: the status of an error is passed on as it is, without the default
FormatResultNoDefault(payload) ==
  LET result == [f \in (DOMAIN payload) \ MetaKeys |-> payload[f]]
      meta == [f \in (DOMAIN payload) \cap {"apiUrl", "rateLimit", "rateLimitCount"}
                 |-> payload[f]]
  IN IF Has(result, "error")
       THEN [error |-> [message |-> result.error.message],
             meta |-> meta @@ [status |-> result.error.status]]
       ELSE [data |-> result,
             meta |-> meta @@
               [cache |-> IF Has(payload, "cache") THEN payload.cache ELSE FALSE,
                status |-> 200]]

FormatResult(payload) ==
  LET result == [f \in (DOMAIN payload) \ MetaKeys |-> payload[f]]
      meta == [f \in (DOMAIN payload) \cap {"apiUrl", "rateLimit", "rateLimitCount"}
                 |-> payload[f]]
  IN IF Has(result, "error")
       THEN [error |-> [message |-> result.error.message],
             meta |-> meta @@
               [status |-> IF result.error.status = Unset THEN 400
                           ELSE result.error.status]]
       ELSE [data |-> result,
             meta |-> meta @@
               [cache |-> IF Has(payload, "cache") THEN payload.cache ELSE FALSE,
                status |-> 200]]

\* ApiClient.formatResult: the client's counters override the payload's
ClientFormatResult(c, count, payload) ==
  FormatResult([rateLimit |-> rateLimit[c], rateLimitCount |-> count] @@ payload)

\* --------------------------------------------------------- provider rules
GetCountryApiUrl(c, ip) == <<Variant(c), ip>>

GetCountryNameFromResult(c, result) ==
  IF Variant(c) = "ipstack"
    THEN IF Has(result, "country_name") THEN result.country_name ELSE NoName
    ELSE IF Has(result, "country") THEN result.country ELSE NoName

NoError == [message |-> "", status |-> -1]

\* mutant: the message leaves the status text out
ValidateResponseStatusOnly(response) ==
  IF ~response.ok
    THEN ApiError(ToString(response.status), response.status)
    ELSE NoError

ValidateResponse(response) ==
  IF ~response.ok
    THEN ApiError(ToString(response.status) \o " " \o response.statusText,
                  response.status)
    ELSE NoError

\* mutant: every payload error is a 400, whatever its type
ValidateResultBadRequest(c, result) ==
  IF Variant(c) = "ipstack"
    THEN IF Has(result, "error")
           THEN ApiError(
                  IF Has(result.error, "info") THEN result.error.info
                  ELSE IF Has(result.error, "type") THEN result.error.type
                  ELSE "An unknown error occurred",
                  400)
           ELSE NoError
    ELSE IF Has(result, "success") /\ result.success = FALSE
           THEN ApiError(IF Has(result, "message") THEN result.message
                         ELSE "An unknown error occurred", 400)
           ELSE NoError

ValidateResult(c, result) ==
  IF Variant(c) = "ipstack"
    THEN IF Has(result, "error")
           THEN ApiError(
                  IF Has(result.error, "info") THEN result.error.info
                  ELSE IF Has(result.error, "type") THEN result.error.type
                  ELSE "An unknown error occurred",
                  IF Has(result.error, "type") /\ result.error.type = "invalid_access_key"
                    THEN 401 ELSE 400)
           ELSE NoError
    ELSE IF Has(result, "success") /\ result.success = FALSE
           THEN ApiError(IF Has(result, "message") THEN result.message
                         ELSE "An unknown error occurred", 400)
           ELSE NoError

\* ------------------------------------------------------ rate-limit window
\* mutant: the window already counts as expired at the instant it ends
IsRateLimitExpiredAtExpiry(c) ==
  rateLimitExpiry[c] = Unset \/ now >= rateLimitExpiry[c]

IsRateLimitExpired(c) ==
  rateLimitExpiry[c] = Unset \/ now > rateLimitExpiry[c]

\* mutant: an exhausted client stays rate limited when its window is over
IsRateLimitedIgnoresExpiry(c) == rateLimitCount[c] >= rateLimit[c]

\* mutant: the comparison with the limit is off by one
IsRateLimitedOffByOne(c) ==
  IF IsRateLimitExpired(c) THEN FALSE
  ELSE rateLimitCount[c] > rateLimit[c]

IsRateLimited(c) ==
  IF IsRateLimitExpired(c) THEN FALSE
  ELSE rateLimitCount[c] >= rateLimit[c]

\* ----------------------------------------------------------- transferCache
\* new Map([...this._cache, ...apiClient.cache]): a later entry replaces an
\* earlier one with the same key
\* mutant: the receiver's entry is kept where both caches hold the key
TransferCacheReceiverWins(receiver, source) ==
  [ip \in IPs |-> IF receiver[ip] # NoName THEN receiver[ip] ELSE source[ip]]

\* mutant: the receiver's cache is replaced by the source's
TransferCacheReplace(receiver, source) == source

\* mutant: only the keys the receiver does not hold at all are merged, and
\* only when the receiver's cache is empty
TransferCacheIntoEmpty(receiver, source) ==
  IF \A ip \in IPs : receiver[ip] = NoName THEN source ELSE receiver

TransferCache(receiver, source) ==
  [ip \in IPs |-> IF source[ip] # NoName THEN source[ip] ELSE receiver[ip]]

\* mutant: only an ApiError is turned into an envelope, any other error is
\* thrown on to the caller
CatchApiErrorOnly(c, ip, count, error) ==
  IF error.status = Unset THEN [thrown |-> error]
  ELSE ClientFormatResult(c, count,
                          [apiUrl |-> GetCountryApiUrl(c, ip), error |-> error])

\* mutant: the envelope drops the status the error carries
CatchBadRequest(c, ip, count, error) ==
  ClientFormatResult(c, count,
    [apiUrl |-> GetCountryApiUrl(c, ip),
     error |-> [message |-> error.message, status |-> Unset]])

\* the catch block of getCountry: every error becomes an error envelope
Catch(c, ip, count, error) ==
  ClientFormatResult(c, count, [apiUrl |-> GetCountryApiUrl(c, ip), error |-> error])

\* a getCountry call passed the gate, issued its fetch and suspended
Suspended(c, ip, reset, was) ==
  [op |-> "fetch", client |-> c, ip |-> ip, reset |-> reset, was |-> was]

\* a getCountry call hands `result` to its caller; `error` is what its try
\* block threw (NoError if nothing), `parsed` whether it read a response body
Return(c, ip, result, error, parsed) ==
  [op |-> "getCountry", client |-> c, ip |-> ip, result |-> result,
   error |-> error, parsed |-> parsed]

\* ------------------------------------------------------------------- Init
Init ==
  /\ now = 0
  /\ rateLimit \in {[c \in Clients |-> n] : n \in 1..MaxRateLimit}
  /\ rateLimitCount = [c \in Clients |-> 0]
  /\ rateLimitExpiry = [c \in Clients |-> Unset]
  /\ cache = [c \in Clients |-> [ip \in IPs |-> NoName]]
  /\ activeApiClient = 1
  /\ pending = EmptyBag
  /\ cur = Idle
  /\ returned = NoReturn
  /\ acc = NoAccess
  /\ fetches = [c \in Clients |-> 0]
  /\ calls = [c \in Clients |-> 0]

\* ------------------------------------------------------------------ clock
\* mutant: a timer resets the count of every window the tick ends
TickExpires ==
  /\ now < MaxTime
  /\ now' = now + 1
  /\ rateLimitCount' =
       [c \in Clients |->
          IF rateLimitExpiry[c] # Unset /\ now + 1 > rateLimitExpiry[c]
            THEN 0 ELSE rateLimitCount[c]]
  /\ returned' = NoReturn
  /\ UNCHANGED <<rateLimit, rateLimitExpiry, cache,
                 activeApiClient, pending, cur, acc, fetches, calls>>

Tick ==
  /\ now < MaxTime
  /\ now' = now + 1
  /\ returned' = NoReturn
  /\ UNCHANGED <<rateLimit, rateLimitCount, rateLimitExpiry, cache,
                 activeApiClient, pending, cur, acc, fetches, calls>>

\* ------------------------------------------- controller and apiClient getter
\* mutant: find never finds a client
QualifiedNever(c) == FALSE

\* mutant: find takes the first client whatever its status
QualifiedAlways(c) == TRUE

\* the predicate of #apiClients.find
Qualified(c) == ~IsRateLimited(c)

\* mutant: the getter falls back to the first client of the list
UnqualifiedFirst == CHOOSE c \in Clients : \A d \in Clients : c <= d

\* the client the getter returns when find found none
UnqualifiedApiClient == activeApiClient

\* mutant: the getter always searches the list from its first client
RequestFindFirst(ip) ==
  /\ cur.pc = "idle"
  /\ BagCardinality(pending) < MaxPending
  /\ acc' = [t0 |-> now, from |-> activeApiClient, transfers |-> <<>>, open |-> TRUE]
  /\ cur' = [Idle EXCEPT !.pc = "find", !.ip = ip, !.i = 1,
                         !.from = activeApiClient, !.t0 = now]
  /\ returned' = NoReturn
  /\ UNCHANGED <<now, rateLimit, rateLimitCount, rateLimitExpiry, cache,
                 activeApiClient, pending, fetches, calls>>

\* GET /countries/:ip begins: the getter reads #activeApiClient.isRateLimited
Request(ip) ==
  /\ cur.pc = "idle"
  /\ BagCardinality(pending) < MaxPending
  /\ acc' = [t0 |-> now, from |-> activeApiClient, transfers |-> <<>>, open |-> TRUE]
  /\ cur' = IF ~IsRateLimited(activeApiClient)
              THEN [Idle EXCEPT !.pc = "getCountry", !.client = activeApiClient,
                                !.ip = ip, !.from = activeApiClient, !.t0 = now]
              ELSE [Idle EXCEPT !.pc = "find", !.ip = ip, !.i = 1,
                                !.from = activeApiClient, !.t0 = now]
  /\ returned' = NoReturn
  /\ UNCHANGED <<now, rateLimit, rateLimitCount, rateLimitExpiry, cache,
                 activeApiClient, pending, fetches, calls>>

\* #apiClients.find reads the next client's isRateLimited; on the first that
\* is not rate limited the cache is transferred and the client made active
Find ==
  /\ cur.pc = "find"
  /\ returned' = NoReturn
  /\ IF Qualified(cur.i)
       THEN /\ cache' = [cache EXCEPT
                           ![cur.i] = TransferCache(cache[cur.i], cache[activeApiClient])]
            /\ activeApiClient' = cur.i
            /\ acc' = [acc EXCEPT
                         !.transfers = Append(@, [receiver |-> cur.i,
                                                  source |-> activeApiClient,
                                                  before |-> cache[cur.i]])]
            /\ cur' = [cur EXCEPT !.pc = "getCountry", !.client = cur.i, !.i = 0]
       ELSE /\ cur' = IF cur.i < NumClients
                        THEN [cur EXCEPT !.i = @ + 1]
                        ELSE [cur EXCEPT !.pc = "getCountry",
                                         !.client = UnqualifiedApiClient, !.i = 0]
            /\ UNCHANGED <<cache, activeApiClient, acc>>
  /\ UNCHANGED <<now, rateLimit, rateLimitCount, rateLimitExpiry, pending,
                 fetches, calls>>

\* ------------------------------------------------------------- getCountry
\* mutant: the cache hit reports the provider URL like a fetched result
CacheHitWithUrl(c, ip) ==
  ClientFormatResult(c, rateLimitCount[c],
    [apiUrl |-> GetCountryApiUrl(c, ip), cache |-> TRUE, name |-> cache[c][ip]])

\* the envelope of a cache hit
CacheHit(c, ip) ==
  ClientFormatResult(c, rateLimitCount[c], [cache |-> TRUE, name |-> cache[c][ip]])

\* the cache check, and on a miss the first clock read of handleRateLimiting
GetCountry ==
  /\ cur.pc = "getCountry"
  /\ acc' = NoAccess
  /\ LET c == cur.client
         name == cache[c][cur.ip]
     IN IF name # NoName
          THEN /\ returned' = Return(c, cur.ip, CacheHit(c, cur.ip), NoError, FALSE)
               /\ cur' = Idle
          ELSE /\ returned' = NoReturn
               /\ cur' = [cur EXCEPT
                            !.pc = IF IsRateLimitExpired(c) THEN "reset" ELSE "gate"]
  /\ UNCHANGED <<now, rateLimit, rateLimitCount, rateLimitExpiry, cache,
                 activeApiClient, pending, fetches, calls>>

\* mutant: the reset starts a new window but keeps the old count
ResetRateLimitKeepCount ==
  /\ cur.pc = "reset"
  /\ rateLimitExpiry' = [rateLimitExpiry EXCEPT ![cur.client] = now + RateLimitTimeframe]
  /\ cur' = [cur EXCEPT !.pc = "gate", !.reset = TRUE,
                        !.was = rateLimitCount[cur.client]]
  /\ returned' = NoReturn
  /\ UNCHANGED <<now, rateLimit, rateLimitCount, cache, activeApiClient, pending, acc,
                 fetches, calls>>

\* the window reset of handleRateLimiting, with its own clock read
ResetRateLimit ==
  /\ cur.pc = "reset"
  /\ rateLimitExpiry' = [rateLimitExpiry EXCEPT ![cur.client] = now + RateLimitTimeframe]
  /\ rateLimitCount' = [rateLimitCount EXCEPT ![cur.client] = 0]
  /\ fetches' = [fetches EXCEPT ![cur.client] = 0]
  /\ calls' = [calls EXCEPT ![cur.client] = 0]
  /\ cur' = [cur EXCEPT !.pc = "gate", !.reset = TRUE,
                        !.was = rateLimitCount[cur.client]]
  /\ returned' = NoReturn
  /\ UNCHANGED <<now, rateLimit, cache, activeApiClient, pending, acc>>

\* mutant: a call for an address another call of the client is fetching
\* waits for that call and neither counts nor fetches
GateCoalesces ==
  /\ cur.pc = "gate"
  /\ LET c == cur.client
     IN /\ calls' = [calls EXCEPT ![c] = IF @ <= rateLimit[c] THEN @ + 1 ELSE @]
        /\ IF IsRateLimited(c)
             THEN /\ returned' = Return(c, cur.ip,
                        Catch(c, cur.ip, rateLimitCount[c], ApiError("Rate limited", 429)),
                        ApiError("Rate limited", 429), FALSE)
                  /\ UNCHANGED <<rateLimitCount, pending, fetches>>
             ELSE IF BagIn(<<c, cur.ip>>, pending)
               THEN /\ returned' = Suspended(c, cur.ip, cur.reset, cur.was)
                    /\ UNCHANGED <<rateLimitCount, pending, fetches>>
               ELSE /\ rateLimitCount' = [rateLimitCount EXCEPT ![c] = @ + 1]
                    /\ fetches' = [fetches EXCEPT ![c] = @ + 1]
                    /\ pending' = pending (+) SetToBag({<<c, cur.ip>>})
                    /\ returned' = Suspended(c, cur.ip, cur.reset, cur.was)
  /\ cur' = Idle
  /\ UNCHANGED <<now, rateLimit, rateLimitExpiry, cache, activeApiClient, acc>>

\* the gate of handleRateLimiting: throw when rate limited, else count the
\* call and issue the fetch, at which the call suspends
Gate ==
  /\ cur.pc = "gate"
  /\ LET c == cur.client
     IN /\ calls' = [calls EXCEPT ![c] = IF @ <= rateLimit[c] THEN @ + 1 ELSE @]
        /\ IF IsRateLimited(c)
             THEN /\ returned' = Return(c, cur.ip,
                        Catch(c, cur.ip, rateLimitCount[c], ApiError("Rate limited", 429)),
                        ApiError("Rate limited", 429), FALSE)
                  /\ UNCHANGED <<rateLimitCount, pending, fetches>>
             ELSE /\ rateLimitCount' = [rateLimitCount EXCEPT ![c] = @ + 1]
                  /\ fetches' = [fetches EXCEPT ![c] = @ + 1]
                  /\ pending' = pending (+) SetToBag({<<c, cur.ip>>})
                  /\ returned' = Suspended(c, cur.ip, cur.reset, cur.was)
  /\ cur' = Idle
  /\ UNCHANGED <<now, rateLimit, rateLimitExpiry, cache, activeApiClient, acc>>

\* mutant: the payload is not validated before the name is taken from it
SettleErrorTrustsPayload(c, outcome) ==
  IF outcome.response.kind = "rejected" THEN PlainError("fetch failed")
  ELSE IF ValidateResponse(outcome.response) # NoError
    THEN ValidateResponse(outcome.response)
  ELSE IF outcome.body.kind = "unparsable" THEN PlainError("Unexpected token")
  ELSE IF GetCountryNameFromResult(c, outcome.body.value) = NoName
    THEN ApiError("Country not found for this IP", 400)
  ELSE NoError

\* what the try block throws once the fetch has settled, NoError if nothing:
\* a rejected fetch, validateResponse, response.json(), validateResult and
\* the missing country name, in the order the code meets them
SettleError(c, outcome) ==
  IF outcome.response.kind = "rejected" THEN PlainError("fetch failed")
  ELSE IF ValidateResponse(outcome.response) # NoError
    THEN ValidateResponse(outcome.response)
  ELSE IF outcome.body.kind = "unparsable" THEN PlainError("Unexpected token")
  ELSE IF ValidateResult(c, outcome.body.value) # NoError
    THEN ValidateResult(c, outcome.body.value)
  ELSE IF GetCountryNameFromResult(c, outcome.body.value) = NoName
    THEN ApiError("Country not found for this IP", 400)
  ELSE NoError

\* the body is read (response.json()) only after validateResponse passed
Parsed(outcome) ==
  outcome.response.kind = "response" /\ ValidateResponse(outcome.response) = NoError

\* mutant: a call that fails after the gate gives its unit of budget back
SettleRefund(c, ip, outcome) ==
  /\ cur.pc = "idle"
  /\ BagIn(<<c, ip>>, pending)
  /\ pending' = pending (-) SetToBag({<<c, ip>>})
  /\ LET error == SettleError(c, outcome)
         count == IF rateLimitCount[c] > 0 THEN rateLimitCount[c] - 1 ELSE 0
     IN IF error # NoError
          THEN /\ rateLimitCount' = [rateLimitCount EXCEPT ![c] = count]
               /\ returned' = Return(c, ip, Catch(c, ip, count, error),
                                     error, Parsed(outcome))
               /\ UNCHANGED cache
          ELSE LET name == GetCountryNameFromResult(c, outcome.body.value)
               IN /\ cache' = [cache EXCEPT ![c][ip] = name]
                  /\ returned' = Return(c, ip,
                        ClientFormatResult(c, rateLimitCount[c],
                          [apiUrl |-> GetCountryApiUrl(c, ip), name |-> name]),
                        NoError, TRUE)
                  /\ UNCHANGED rateLimitCount
  /\ UNCHANGED <<now, rateLimit, rateLimitExpiry,
                 activeApiClient, cur, acc, fetches, calls>>

\* A suspended call resumes: the fetch settles and, for an ok response, the
\* body does.  Between its two awaits the call touches no state of the
\* client, so both are taken in this one step.
Settle(c, ip, outcome) ==
  /\ cur.pc = "idle"
  /\ BagIn(<<c, ip>>, pending)
  /\ pending' = pending (-) SetToBag({<<c, ip>>})
  /\ LET error == SettleError(c, outcome)
     IN IF error # NoError
          THEN /\ returned' = Return(c, ip, Catch(c, ip, rateLimitCount[c], error),
                                     error, Parsed(outcome))
               /\ UNCHANGED cache
          ELSE LET name == GetCountryNameFromResult(c, outcome.body.value)
               IN /\ cache' = [cache EXCEPT ![c][ip] = name]
                  /\ returned' = Return(c, ip,
                        ClientFormatResult(c, rateLimitCount[c],
                          [apiUrl |-> GetCountryApiUrl(c, ip), name |-> name]),
                        NoError, TRUE)
  /\ UNCHANGED <<now, rateLimit, rateLimitCount, rateLimitExpiry,
                 activeApiClient, cur, acc, fetches, calls>>

Next ==
  \/ Tick
  \/ \E ip \in IPs : Request(ip)
  \/ Find
  \/ GetCountry
  \/ ResetRateLimit
  \/ Gate
  \/ \E c \in Clients, ip \in IPs : \E outcome \in Outcomes(c, ip) : Settle(c, ip, outcome)

Spec == Init /\ [][Next]_vars

\* ------------------------------------------------- requests one at a time
\* a request comes in when the one before it has been answered
RequestSerial(ip) ==
  /\ pending = EmptyBag
  /\ Request(ip)

NextSerial ==
  \/ Tick
  \/ \E ip \in IPs : RequestSerial(ip)
  \/ Find
  \/ GetCountry
  \/ ResetRateLimit
  \/ Gate
  \/ \E c \in Clients, ip \in IPs : \E outcome \in Outcomes(c, ip) : Settle(c, ip, outcome)

SpecSerial == Init /\ [][NextSerial]_vars

\* ------------------------------------------- formatResult on its own
\* the payloads formatResult is called with: each of its named parameters
\* given or left out, an error with or without a status or none, and zero,
\* one or two fields of data
FormatPayloads ==
  { apiUrl @@ flag @@ limit @@ count @@ error @@ data :
      apiUrl \in { <<>>, [apiUrl |-> GetCountryApiUrl(1, 1)] },
      flag \in { <<>>, [cache |-> TRUE], [cache |-> FALSE] },
      limit \in { <<>>, [rateLimit |-> 2] },
      count \in { <<>>, [rateLimitCount |-> 0], [rateLimitCount |-> 1] },
      error \in { <<>>, [error |-> PlainError("fetch failed")],
                  [error |-> ApiError("Rate limited", 429)],
                  [error |-> ApiError("Country not found for this IP", Unset)] },
      data \in { <<>>, [name |-> CountryName(1, 1)],
                 [name |-> CountryName(1, 1), code |-> "US"] } }

\* a caller holds a payload
InitFormat ==
  /\ now = 0
  /\ rateLimit = [c \in Clients |-> 1]
  /\ rateLimitCount = [c \in Clients |-> 0]
  /\ rateLimitExpiry = [c \in Clients |-> Unset]
  /\ cache = [c \in Clients |-> [ip \in IPs |-> NoName]]
  /\ activeApiClient = 1
  /\ pending = EmptyBag
  /\ cur = Idle
  /\ returned \in { [op |-> "payload", payload |-> p] : p \in FormatPayloads }
  /\ acc = NoAccess
  /\ fetches = [c \in Clients |-> 0]
  /\ calls = [c \in Clients |-> 0]

\* and calls formatResult with it
FormatResultCall ==
  /\ returned.op = "payload"
  /\ returned' = [op |-> "formatResult", payload |-> returned.payload,
                  result |-> FormatResult(returned.payload)]
  /\ UNCHANGED <<now, rateLimit, rateLimitCount, rateLimitExpiry, cache,
                 activeApiClient, pending, cur, acc, fetches, calls>>

NextFormat == FormatResultCall

SpecFormat == InitFormat /\ [][NextFormat]_vars

\* ================================================================= claims
\* a client is rate limited at the present instant
RateLimitedNow(c) ==
  /\ rateLimitExpiry[c] # Unset
  /\ now <= rateLimitExpiry[c]
  /\ rateLimitCount[c] >= rateLimit[c]

\* the step taken is the synchronous run going on from position pc
RunStep(pc) == cur.pc = pc /\ cur' # cur

\* the getter has just returned and no clock tick fell into the access
AccessedAtOnce == cur.pc = "getCountry" /\ acc.open /\ acc.t0 = now

RateLimitedEnvelope(c, ip) ==
  [error |-> [message |-> "Rate limited"],
   meta |-> [apiUrl |-> GetCountryApiUrl(c, ip), rateLimit |-> rateLimit[c],
             rateLimitCount |-> rateLimit[c], status |-> 429]]

\* C1: a getCountry call for an IP the client has cached returns a success
\* envelope with meta.cache = TRUE and the cached name and without apiUrl,
\* issues no fetch and leaves rateLimitCount and rateLimitExpiry unchanged,
\* whatever the client's rate-limit status.
C1_CacheHit ==
  [][ (RunStep("getCountry") /\ cache[cur.client][cur.ip] # NoName) =>
        /\ returned' = Return(cur.client, cur.ip,
             [data |-> [name |-> cache[cur.client][cur.ip]],
              meta |-> [cache |-> TRUE, rateLimit |-> rateLimit[cur.client],
                        rateLimitCount |-> rateLimitCount[cur.client],
                        status |-> 200]],
             NoError, FALSE)
        /\ ~Has(returned'.result.meta, "apiUrl")
        /\ cur' = Idle
        /\ UNCHANGED <<pending, fetches, rateLimitCount, rateLimitExpiry, cache>> ]_vars

\* a cache hit was served by a client that is rate limited
C1_Witness ==
  /\ returned.op = "getCountry"
  /\ Has(returned.result, "data")
  /\ returned.result.meta.cache = TRUE
  /\ RateLimitedNow(returned.client)

\* C2: inside one window the k-th call that reaches the gate since the
\* window's reset passes it and leaves rateLimitCount = k for k <= rateLimit;
\* the (rateLimit+1)-th is answered "Rate limited", status 429,
\* rateLimitCount = rateLimit, with no fetch and no change of rateLimitCount.
C2_RateLimit ==
  [][ (RunStep("gate") /\ now <= rateLimitExpiry[cur.client]) =>
        LET c == cur.client
            k == calls[c] + 1
        IN IF k <= rateLimit[c]
             THEN /\ returned'.op = "fetch"
                  /\ rateLimitCount'[c] = k
                  /\ pending' = pending (+) SetToBag({<<c, cur.ip>>})
             ELSE /\ returned'.op = "getCountry"
                  /\ returned'.result = RateLimitedEnvelope(c, cur.ip)
                  /\ UNCHANGED <<pending, fetches, rateLimitCount>> ]_vars

\* the third call of a window with rateLimit = 2 was rejected
C2_Witness ==
  /\ returned.op = "getCountry"
  /\ returned.result = RateLimitedEnvelope(returned.client, returned.ip)
  /\ rateLimit[returned.client] = 2
  /\ calls[returned.client] = 3
  /\ now <= rateLimitExpiry[returned.client]

\* C3: when some client is not rate limited at the moment of the access, the
\* getter returns a client that is not rate limited: the active one if it is
\* not rate limited, else the first such client in list order, which becomes
\* the active client.
C3_CurrentClient ==
  (AccessedAtOnce /\ \E c \in Clients : ~RateLimitedNow(c)) =>
     /\ ~RateLimitedNow(cur.client)
     /\ activeApiClient = cur.client
     /\ IF ~RateLimitedNow(acc.from)
          THEN cur.client = acc.from
          ELSE \A d \in Clients : d < cur.client => RateLimitedNow(d)

\* the getter went back from the second client to the first, whose window
\* had expired in the meantime
C3_Witness ==
  /\ AccessedAtOnce
  /\ acc.from = 2
  /\ cur.client = 1
  /\ RateLimitedNow(2)

\* C4: an access that switches the active client from A to B calls
\* transferCache exactly once, on B with A as the source, and afterwards B's
\* cache holds every entry, key and value, that A's cache held.
C4_Failover ==
  [][ (RunStep("find") /\ activeApiClient' # activeApiClient) =>
        /\ Len(acc'.transfers) = 1
        /\ acc'.transfers[1].receiver = activeApiClient'
        /\ acc'.transfers[1].source = activeApiClient
        /\ \A ip \in IPs :
             cache[activeApiClient][ip] # NoName =>
               cache'[activeApiClient'][ip] = cache[activeApiClient][ip] ]_vars

\* a failover carried an entry over to a client that held another name for
\* the same address
C4_Witness ==
  /\ cur.pc = "getCountry"
  /\ acc.open
  /\ activeApiClient # acc.from
  /\ Len(acc.transfers) = 1
  /\ \E ip \in IPs :
       /\ cache[acc.from][ip] # NoName
       /\ acc.transfers[1].before[ip] # NoName
       /\ acc.transfers[1].before[ip] # cache[acc.from][ip]

\* the transferCache call the step makes, if it makes one
Transferred == Len(acc'.transfers) = Len(acc.transfers) + 1

\* C5 as stated: for a key of both caches, transferCache leaves the
\* receiver's own value in place.
C5_ReceiverWins ==
  [][ (RunStep("find") /\ Transferred) =>
        \A ip \in IPs :
          (cache[cur.i][ip] # NoName /\ cache[activeApiClient][ip] # NoName) =>
             cache'[cur.i][ip] = cache[cur.i][ip] ]_vars

\* C5 amended: for a key of both caches, transferCache replaces the
\* receiver's value by the source's value.
C5_SourceWins ==
  [][ (RunStep("find") /\ Transferred) =>
        \A ip \in IPs :
          (cache[cur.i][ip] # NoName /\ cache[activeApiClient][ip] # NoName) =>
             cache'[cur.i][ip] = cache[activeApiClient][ip] ]_vars

\* a transferCache call met a key held by both caches with different names
C5_Witness ==
  /\ acc.open
  /\ \E j \in 1..Len(acc.transfers) : \E ip \in IPs :
       LET t == acc.transfers[j]
       IN /\ t.receiver # t.source
          /\ t.before[ip] # NoName
          /\ cache[t.source][ip] # NoName
          /\ t.before[ip] # cache[t.source][ip]
          /\ cache[t.receiver][ip] = cache[t.source][ip]

\* C6: when every client is rate limited at each read of the access, the
\* getter returns the client that was active, leaves it active, calls no
\* transferCache and changes no cache and no rate-limit counter.
C6_AllRateLimited ==
  [][ ((RunStep("idle") \/ RunStep("find")) /\ \A c \in Clients : RateLimitedNow(c)) =>
        /\ UNCHANGED <<cache, rateLimitCount, rateLimitExpiry, activeApiClient,
                       fetches, pending>>
        /\ acc'.transfers = <<>>
        /\ acc'.from = activeApiClient
        /\ cur'.pc = "getCountry" => cur'.client = activeApiClient ]_vars

\* the getter returned the second client, active before, with every client
\* rate limited
C6_Witness ==
  /\ AccessedAtOnce
  /\ \A c \in Clients : RateLimitedNow(c)
  /\ acc.from = 2
  /\ cur.client = 2
  /\ acc.transfers = <<>>

\* C7: a call for an uncached IP that finds the clock past rateLimitExpiry
\* resets the window (rateLimitExpiry = now + rateLimitTimeframe, count 0),
\* is not rejected by the gate and leaves rateLimitCount = 1, whatever the
\* count of the previous window.
C7_WindowReset ==
  [][ /\ (RunStep("getCountry") /\ cache[cur.client][cur.ip] = NoName
            /\ rateLimitExpiry[cur.client] # Unset
            /\ now > rateLimitExpiry[cur.client])
         => cur'.pc = "reset"
      /\ RunStep("reset") =>
           /\ rateLimitExpiry'[cur.client] = now + RateLimitTimeframe
           /\ rateLimitCount'[cur.client] = 0
           /\ cur'.pc = "gate"
      /\ (RunStep("gate") /\ cur.reset) =>
           /\ returned'.op = "fetch"
           /\ rateLimitCount'[cur.client] = 1
           /\ pending' = pending (+) SetToBag({<<cur.client, cur.ip>>})
           /\ UNCHANGED rateLimitExpiry ]_vars

\* a call passed the gate after resetting a window that was exhausted
C7_Witness ==
  /\ returned.op = "fetch"
  /\ returned.reset
  /\ returned.was = rateLimit[returned.client]
  /\ rateLimitCount[returned.client] = 1

\* C8: whatever a getCountry call hands back is an envelope; when its try
\* block threw (rate limit, rejected fetch, HTTP status, unparsable body,
\* payload error, no country name) it is an error envelope with the computed
\* apiUrl, the client's rateLimit and current rateLimitCount, and the status
\* of the error, or 400 when the error carries none.
C8_AlwaysEnvelope ==
  returned.op = "getCountry" =>
    /\ Has(returned.result, "meta")
    /\ Has(returned.result, "data") # Has(returned.result, "error")
    /\ returned.error # NoError =>
         returned.result =
           [error |-> [message |-> returned.error.message],
            meta |-> [apiUrl |-> GetCountryApiUrl(returned.client, returned.ip),
                      rateLimit |-> rateLimit[returned.client],
                      rateLimitCount |-> rateLimitCount[returned.client],
                      status |-> IF returned.error.status = Unset THEN 400
                                 ELSE returned.error.status]]

\* a call whose fetch was rejected, an error without status, returned an
\* error envelope with status 400
C8_Witness ==
  /\ returned.op = "getCountry"
  /\ returned.error # NoError
  /\ returned.error.status = Unset
  /\ ~returned.parsed
  /\ Has(returned.result, "error")
  /\ returned.result.meta.status = 400

\* C9 as stated: a client issues at most rateLimit fetches between two
\* consecutive resets of its window.
C9_FetchesWithinLimit ==
  \A c \in Clients : fetches[c] <= rateLimit[c]

\* C10 as stated: in every state the active client is not rate limited
\* unless all clients are.
C10_ActiveNeverRateLimited ==
  (\E c \in Clients : ~RateLimitedNow(c)) => ~RateLimitedNow(activeApiClient)

\* C10 amended: right after an access of the getter, made at one instant,
\* the active client is not rate limited unless all clients are.
C10_ActiveAfterAccess ==
  (AccessedAtOnce /\ \E c \in Clients : ~RateLimitedNow(c)) =>
     ~RateLimitedNow(activeApiClient)

\* an access found the active client rate limited and left another client
\* active that is not
C10_Witness ==
  /\ AccessedAtOnce
  /\ acc.from # activeApiClient
  /\ RateLimitedNow(acc.from)
  /\ ~RateLimitedNow(activeApiClient)
  /\ rateLimitCount[activeApiClient] > 0

\* C11: with the clock free to advance between any two clock reads, those of
\* one evaluation of the gate included, every client's rateLimitCount stays
\* between 0 and rateLimit + 1.
C11_CountBound ==
  \A c \in Clients :
    /\ rateLimit[c] > 0
    /\ 0 <= rateLimitCount[c]
    /\ rateLimitCount[c] <= rateLimit[c] + 1

\* a call passed the gate of an exhausted window that ran out between the
\* gate's two clock reads: the count stands at rateLimit + 1
C11_Witness ==
  /\ returned.op = "fetch"
  /\ ~returned.reset
  /\ rateLimitCount[returned.client] = rateLimit[returned.client] + 1

\* the step is a suspended call failing
SettleFails ==
  /\ pending' # pending
  /\ returned'.op = "getCountry"
  /\ returned'.error # NoError

\* C12: a call that passes the gate raises rateLimitCount by exactly 1, and
\* when it then fails (rejected fetch, HTTP status, unparsable body, payload
\* error, no country name) the count stays raised and the cache unchanged; so
\* once rateLimit fetches were issued in a window, whatever became of them,
\* the next call of the window is rejected.
C12_FailureConsumesBudget ==
  [][ /\ (RunStep("gate") /\ returned'.op = "fetch") =>
           /\ rateLimitCount'[cur.client] = rateLimitCount[cur.client] + 1
           /\ UNCHANGED cache
      /\ SettleFails =>
           UNCHANGED <<cache, rateLimitCount, rateLimitExpiry, fetches>>
      /\ (RunStep("gate") /\ now <= rateLimitExpiry[cur.client]
            /\ fetches[cur.client] = rateLimit[cur.client]) =>
           /\ returned'.op = "getCountry"
           /\ returned'.result = RateLimitedEnvelope(cur.client, cur.ip) ]_vars

\* a client with rateLimit = 2 rejected a call although no call of any client
\* ever succeeded and none is in flight: two failed calls used up its window
C12_Witness ==
  /\ returned.op = "getCountry"
  /\ returned.result = RateLimitedEnvelope(returned.client, returned.ip)
  /\ rateLimit[returned.client] = 2
  /\ rateLimitCount[returned.client] = 2
  /\ pending = EmptyBag
  /\ \A c \in Clients, ip \in IPs : cache[c][ip] = NoName

\* C13: a request that finds every client rate limited at each of its clock
\* reads, for an IP the active client has not cached, is answered by the
\* client that was active before it with "Rate limited", meta.status = 429
\* and meta.rateLimitCount = meta.rateLimit; no client issues a fetch and the
\* active client stays.
C13_AllRateLimitedRequest ==
  [][ (RunStep("gate") /\ \A c \in Clients : RateLimitedNow(c)) =>
        /\ cur.client = cur.from
        /\ activeApiClient = cur.from
        /\ cache[cur.client][cur.ip] = NoName
        /\ returned' = Return(cur.from, cur.ip,
                              RateLimitedEnvelope(cur.from, cur.ip),
                              ApiError("Rate limited", 429), FALSE)
        /\ returned'.result.error.message = "Rate limited"
        /\ returned'.result.meta.status = 429
        /\ returned'.result.meta.rateLimitCount = returned'.result.meta.rateLimit
        /\ UNCHANGED <<pending, fetches, cache, rateLimitCount, rateLimitExpiry,
                       activeApiClient>> ]_vars

\* with both clients exhausted after a failover, the second client, the
\* active one, rejected a request
C13_Witness ==
  /\ returned.op = "getCountry"
  /\ returned.client = 2
  /\ activeApiClient = 2
  /\ returned.result = RateLimitedEnvelope(2, returned.ip)
  /\ cache[2][returned.ip] = NoName
  /\ \A c \in Clients : RateLimitedNow(c)

\* C14: an access that finds the active client not rate limited returns it,
\* keeps it active and calls no transferCache, also when an earlier client of
\* the list is not rate limited either; the call that client then makes in a
\* new window, its old one exhausted, passes the gate with rateLimitCount = 1.
C14_NoFailBack ==
  [][ /\ (RunStep("idle") /\ ~RateLimitedNow(activeApiClient)) =>
           /\ cur'.pc = "getCountry"
           /\ cur'.client = activeApiClient
           /\ acc'.transfers = <<>>
           /\ UNCHANGED <<activeApiClient, cache, rateLimitCount, rateLimitExpiry>>
      /\ (RunStep("gate") /\ cur.reset /\ cur.was >= rateLimit[cur.client]
            /\ cur.client = cur.from) =>
           /\ returned'.op = "fetch"
           /\ returned'.client = cur.from
           /\ rateLimitCount'[cur.from] = 1
           /\ activeApiClient' = cur.from ]_vars

\* both clients exhausted, both windows over: the access returned the second
\* client, active last, and not the first
C14_Witness ==
  /\ AccessedAtOnce
  /\ acc.from = 2
  /\ cur.client = 2
  /\ activeApiClient = 2
  /\ acc.transfers = <<>>
  /\ \A c \in Clients :
       /\ rateLimitCount[c] = rateLimit[c]
       /\ rateLimitExpiry[c] # Unset
       /\ now > rateLimitExpiry[c]

\* the envelope of an error with the given message and status, from client c
\* asked for ip
ErrorEnvelope(c, ip, message, status) ==
  [error |-> [message |-> message],
   meta |-> [apiUrl |-> GetCountryApiUrl(c, ip), rateLimit |-> rateLimit[c],
             rateLimitCount |-> rateLimitCount[c], status |-> status]]

\* the step is a suspended call resuming: only that takes a call out of the
\* pending ones, and it hands back the call's client and address
Resumes == BagCardinality(pending') < BagCardinality(pending)

\* C15: when the response of a gated call has ok = false, status S and status
\* text T, the call returns an error envelope with message "S T" and
\* meta.status = S, never reads the body and writes nothing to the cache.
C15_HttpError ==
  [][ Resumes => \A c \in {returned'.client}, ip \in {returned'.ip} :
                   \A o \in Outcomes(c, ip) :
        (o.response.kind = "response" /\ ~o.response.ok /\ Settle(c, ip, o)) =>
          /\ returned'.op = "getCountry"
          /\ returned'.result =
               ErrorEnvelope(c, ip,
                 ToString(o.response.status) \o " " \o o.response.statusText,
                 o.response.status)
          /\ ~returned'.parsed
          /\ UNCHANGED <<cache, rateLimitCount>> ]_vars

\* a call answered 500 returned "500 Internal Server Error" without reading
\* the body
C15_Witness ==
  /\ returned.op = "getCountry"
  /\ ~returned.parsed
  /\ returned.result =
       ErrorEnvelope(returned.client, returned.ip, "500 Internal Server Error", 500)

\* C16: for an ok response whose payload signals an error, the base client
\* returns an error envelope with meta.status = 401 exactly when the payload's
\* error type is "invalid_access_key" and 400 otherwise, the message being the
\* error's info, else its type, else a generic text; the alternate client
\* returns meta.status = 400 with the payload's message, else a generic text,
\* exactly when the payload has success = FALSE.  Nothing is cached.
C16_PayloadError ==
  [][ Resumes => \A c \in {returned'.client}, ip \in {returned'.ip} :
                   \A o \in Outcomes(c, ip) :
        (/\ o.response.kind = "response"
         /\ o.response.ok
         /\ o.body.kind = "object"
         /\ Settle(c, ip, o)) =>
          LET p == o.body.value
              signals == IF Variant(c) = "ipstack" THEN Has(p, "error")
                         ELSE Has(p, "success") /\ p.success = FALSE
              message == IF Variant(c) = "ipstack"
                           THEN IF Has(p.error, "info") THEN p.error.info
                                ELSE IF Has(p.error, "type") THEN p.error.type
                                ELSE "An unknown error occurred"
                           ELSE IF Has(p, "message") THEN p.message
                                ELSE "An unknown error occurred"
              status == IF Variant(c) = "ipstack" /\ Has(p.error, "type")
                           /\ p.error.type = "invalid_access_key"
                          THEN 401 ELSE 400
          IN IF signals
               THEN /\ returned'.result = ErrorEnvelope(c, ip, message, status)
                    /\ returned'.parsed
                    /\ UNCHANGED cache
               ELSE returned'.error \in
                      {NoError, ApiError("Country not found for this IP", 400)} ]_vars

\* the base client turned a payload error of another type, without info, into
\* a 400 with the type as the message
C16_Witness ==
  /\ returned.op = "getCountry"
  /\ returned.parsed
  /\ Variant(returned.client) = "ipstack"
  /\ returned.result =
       ErrorEnvelope(returned.client, returned.ip, "invalid_ip_address", 400)
  /\ cache[returned.client][returned.ip] = NoName

\* C17: formatResult gives a payload with an error the shape {error:
\* {message}, meta} with meta.status the error's status, or 400 when it has
\* none, and no meta.cache; it gives any other payload the shape {data, meta}
\* with meta.status = 200, meta.cache the given flag, FALSE when absent, and
\* data exactly the payload's fields other than apiUrl, cache, rateLimit and
\* rateLimitCount.
C17_FormatResult ==
  returned.op = "formatResult" =>
    LET p == returned.payload
        r == returned.result
    IN IF Has(p, "error")
         THEN /\ DOMAIN r = {"error", "meta"}
              /\ r.error = [message |-> p.error.message]
              /\ r.meta.status =
                   (IF p.error.status = Unset THEN 400 ELSE p.error.status)
              /\ ~Has(r.meta, "cache")
         ELSE /\ DOMAIN r = {"data", "meta"}
              /\ r.meta.status = 200
              /\ r.meta.cache = (IF Has(p, "cache") THEN p.cache ELSE FALSE)
              /\ DOMAIN r.data = (DOMAIN p) \ {"apiUrl", "cache", "rateLimit",
                                                "rateLimitCount"}
              /\ \A f \in DOMAIN r.data : r.data[f] = p[f]

\* an error without a status, given together with a cache flag and data, was
\* formatted as a 400 without meta.cache
C17_Witness ==
  /\ returned.op = "formatResult"
  /\ Has(returned.payload, "error")
  /\ returned.payload.error.status = Unset
  /\ Has(returned.payload, "cache")
  /\ Has(returned.payload, "name")
  /\ returned.result.meta.status = 400
  /\ ~Has(returned.result.meta, "cache")

\* what the spec says a read of isRateLimited returns
RateLimitedAsSpecified(c) ==
  IF rateLimitExpiry[c] = Unset \/ now > rateLimitExpiry[c] THEN FALSE
  ELSE rateLimitCount[c] >= rateLimit[c]

\* C18: isRateLimited is FALSE when rateLimitExpiry is unset or the clock is
\* past it, and otherwise TRUE exactly when rateLimitCount >= rateLimit; the
\* getter's reads of it decide its route and change neither rateLimitCount,
\* rateLimitExpiry nor, by themselves, the cache.
C18_IsRateLimitedRead ==
  [][ /\ \A c \in Clients : IsRateLimited(c) = RateLimitedAsSpecified(c)
      /\ RunStep("idle") =>
           /\ (cur'.pc = "getCountry") = ~RateLimitedAsSpecified(activeApiClient)
           /\ UNCHANGED <<rateLimitCount, rateLimitExpiry, cache, activeApiClient>>
      /\ RunStep("find") =>
           /\ UNCHANGED <<rateLimitCount, rateLimitExpiry>>
           /\ RateLimitedAsSpecified(cur.i) => UNCHANGED <<cache, activeApiClient>>
           /\ ~RateLimitedAsSpecified(cur.i) => activeApiClient' = cur.i ]_vars

\* the read reported FALSE for an exhausted client whose window is over and
\* whose rateLimitCount still equals rateLimit
C18_Witness ==
  /\ cur.pc = "getCountry"
  /\ acc.open
  /\ acc.t0 = now
  /\ acc.from = cur.client
  /\ rateLimitCount[cur.client] = rateLimit[cur.client]
  /\ rateLimitExpiry[cur.client] # Unset
  /\ now > rateLimitExpiry[cur.client]
  /\ ~IsRateLimited(cur.client)

\* C19: rateLimitCount is reset to 0 and rateLimitExpiry recomputed only in
\* the gate of a getCountry call for an uncached IP, and there exactly when
\* rateLimitExpiry is unset or the clock past it; a clock tick, a cache hit
\* and the getter with its isRateLimited reads and transferCache leave both
\* unchanged, and rateLimitCount otherwise changes only by the gate's count.
C19_ResetOnlyInGate ==
  [][ /\ \A c \in Clients :
           /\ (rateLimitExpiry'[c] # rateLimitExpiry[c]
                 \/ rateLimitCount'[c] < rateLimitCount[c]) =>
                /\ cur.pc = "reset"
                /\ cur.client = c
                /\ cache[c][cur.ip] = NoName
                /\ rateLimitExpiry[c] = Unset \/ now > rateLimitExpiry[c]
                /\ rateLimitCount'[c] = 0
                /\ rateLimitExpiry'[c] = now + RateLimitTimeframe
           /\ rateLimitCount'[c] > rateLimitCount[c] =>
                /\ cur.pc = "gate"
                /\ cur.client = c
                /\ rateLimitCount'[c] = rateLimitCount[c] + 1
      /\ (RunStep("getCountry") /\ cache[cur.client][cur.ip] = NoName) =>
           (cur'.pc = "reset") =
             (rateLimitExpiry[cur.client] = Unset \/ now > rateLimitExpiry[cur.client])
      /\ RunStep("reset") =>
           /\ rateLimitCount'[cur.client] = 0
           /\ rateLimitExpiry'[cur.client] = now + RateLimitTimeframe
      /\ (\/ now' # now
          \/ RunStep("idle")
          \/ RunStep("find")
          \/ RunStep("getCountry") /\ cache[cur.client][cur.ip] # NoName) =>
           UNCHANGED <<rateLimitCount, rateLimitExpiry>> ]_vars

\* the gate has just reset a window that had counted calls: the count is 0
\* and the expiry one timeframe ahead
C19_Witness ==
  /\ cur.pc = "gate"
  /\ cur.reset
  /\ cur.was > 0
  /\ rateLimitCount[cur.client] = 0
  /\ rateLimitExpiry[cur.client] = now + RateLimitTimeframe

\* C20: after receiver.transferCache(source) the receiver's key set is the
\* union of the two key sets before, an entry whose key only one of the two
\* caches held keeps its value, the source's cache is unchanged and no
\* client's rateLimitCount or rateLimitExpiry changes.
C20_TransferCacheFrame ==
  [][ (RunStep("find") /\ Transferred) =>
        LET r == cur.i
            src == activeApiClient
        IN /\ \A ip \in IPs :
                /\ (cache'[r][ip] # NoName) =
                     (cache[r][ip] # NoName \/ cache[src][ip] # NoName)
                /\ (cache[r][ip] # NoName /\ cache[src][ip] = NoName) =>
                     cache'[r][ip] = cache[r][ip]
                /\ (cache[r][ip] = NoName /\ cache[src][ip] # NoName) =>
                     cache'[r][ip] = cache[src][ip]
           /\ cache'[src] = cache[src]
           /\ \A c \in Clients \ {r} : cache'[c] = cache[c]
           /\ UNCHANGED <<rateLimitCount, rateLimitExpiry>> ]_vars

\* a transfer between two clients each of which held a key the other did not
C20_Witness ==
  /\ acc.open
  /\ \E j \in 1..Len(acc.transfers) : \E ip1 \in IPs, ip2 \in IPs :
       LET t == acc.transfers[j]
       IN /\ t.receiver # t.source
          /\ t.before[ip1] # NoName
          /\ cache[t.source][ip1] = NoName
          /\ t.before[ip2] = NoName
          /\ cache[t.source][ip2] # NoName
          /\ cache[t.receiver][ip1] = t.before[ip1]
          /\ cache[t.receiver][ip2] = cache[t.source][ip2]

\* C21 as stated: once a request has resolved an IP, the IP is in the cache
\* of the active client, also when the call was pending on the old client
\* while another request made the orchestrator fail over.
C21_ResolvedInActiveCache ==
  (returned.op = "getCountry" /\ Has(returned.result, "data")) =>
     cache[activeApiClient][returned.ip] # NoName

\* C22: with requests handled one at a time, after every access of the
\* getter the active client's cache holds every key any client's cache holds.
C22_ActiveHoldsAllKeys ==
  (cur.pc = "getCountry" /\ acc.open) =>
     \A c \in Clients, ip \in IPs :
       cache[c][ip] # NoName => cache[activeApiClient][ip] # NoName

\* a fail-back to the first client, which lacked a key the second had
\* resolved in the meantime, and holds it now
C22_Witness ==
  /\ cur.pc = "getCountry"
  /\ acc.open
  /\ acc.from = 2
  /\ activeApiClient = 1
  /\ Len(acc.transfers) = 1
  /\ \E ip \in IPs :
       /\ acc.transfers[1].before[ip] = NoName
       /\ cache[2][ip] # NoName
       /\ cache[1][ip] = cache[2][ip]

\* client c was rate limited at time t, its counters being the present ones
RateLimitedAt(c, t) ==
  /\ rateLimitExpiry[c] # Unset
  /\ t <= rateLimitExpiry[c]
  /\ rateLimitCount[c] >= rateLimit[c]

\* C23: a request is answered "Rate limited" only if every client of the list
\* was rate limited at the moment of its access of the getter, whatever calls
\* are in flight; the request itself changed no counter before the gate.
C23_RejectedOnlyIfAllLimited ==
  [][ (RunStep("gate") /\ returned'.op = "getCountry") =>
        /\ returned'.result = RateLimitedEnvelope(cur.client, cur.ip)
        /\ ~cur.reset
        /\ cur.t0 <= now
        /\ \A c \in Clients : RateLimitedAt(c, cur.t0) ]_vars

\* a request was rejected with every client rate limited at its access, one
\* of the windows having run out before the gate was reached
C23_Witness ==
  /\ returned.op = "getCountry"
  /\ returned.result = RateLimitedEnvelope(returned.client, returned.ip)
  /\ BagCardinality(pending) > 0
  /\ \E c \in Clients :
       /\ rateLimitExpiry[c] # Unset
       /\ now > rateLimitExpiry[c]

\* the outcome is an ok response with a body that parses to a payload without
\* an error of the provider's kind and with the provider's name for ip
ValidOutcome(c, ip, o) ==
  /\ o.response.kind = "response"
  /\ o.response.ok
  /\ o.body.kind = "object"
  /\ IF Variant(c) = "ipstack"
       THEN /\ ~Has(o.body.value, "error")
            /\ Has(o.body.value, "country_name")
            /\ o.body.value.country_name = CountryName(c, ip)
       ELSE /\ ~(Has(o.body.value, "success") /\ o.body.value.success = FALSE)
            /\ Has(o.body.value, "country")
            /\ o.body.value.country = CountryName(c, ip)

\* C24: every cache entry maps an IP to a name some client took from an ok,
\* validated response for that IP; a call that ends in an error (rate limit,
\* transport, HTTP status, payload error, missing name) changes no cache, a
\* cache changes only by such a success or by transferCache, and no step
\* removes a key from a cache.
C24_CacheProvenance ==
  [][ /\ \A c \in Clients, ip \in IPs :
           /\ cache[c][ip] # NoName => cache'[c][ip] # NoName
           /\ cache'[c][ip] # NoName =>
                \E d \in Clients : cache'[c][ip] = CountryName(d, ip)
      /\ (returned'.op = "getCountry" /\ returned'.error # NoError) =>
           UNCHANGED cache
      /\ cache' # cache => Resumes \/ (RunStep("find") /\ Transferred)
      /\ (Resumes /\ cache' # cache) =>
           \A c \in {returned'.client}, ip \in {returned'.ip} :
             /\ cache' = [cache EXCEPT ![c][ip] = CountryName(c, ip)]
             /\ \A o \in Outcomes(c, ip) :
                  Settle(c, ip, o) => ValidOutcome(c, ip, o) ]_vars

\* the second client holds a name the first client resolved and, for another
\* address, one it resolved itself
C24_Witness ==
  \E ip1 \in IPs, ip2 \in IPs :
    /\ cache[2][ip1] = CountryName(1, ip1)
    /\ cache[2][ip2] = CountryName(2, ip2)
    /\ returned.op = "getCountry"
    /\ returned.error # NoError

\* the number of suspended calls of client c for ip
Fetching(c, ip) == CopiesIn(<<c, ip>>, pending)

\* C25: a getCountry call for an uncached IP the same client is already
\* fetching misses the cache, passes the gate when budget allows, issues a
\* fetch of its own and raises rateLimitCount by 1; once a call has cached
\* the IP, every later call for it on this client is a cache hit without a
\* fetch, also while the other call is still suspended.
C25_OverlappingCalls ==
  [][ /\ (RunStep("getCountry") /\ Fetching(cur.client, cur.ip) > 0
            /\ cache[cur.client][cur.ip] = NoName) =>
           /\ cur'.pc \in {"reset", "gate"}
           /\ returned' = NoReturn
      /\ (RunStep("gate") /\ Fetching(cur.client, cur.ip) > 0
            /\ ~RateLimitedAsSpecified(cur.client)) =>
           /\ returned'.op = "fetch"
           /\ CopiesIn(<<cur.client, cur.ip>>, pending') =
                Fetching(cur.client, cur.ip) + 1
           /\ rateLimitCount'[cur.client] = rateLimitCount[cur.client] + 1
           /\ fetches'[cur.client] = fetches[cur.client] + 1
      /\ (RunStep("getCountry") /\ cache[cur.client][cur.ip] # NoName) =>
           /\ returned'.op = "getCountry"
           /\ returned'.result.meta.cache = TRUE
           /\ returned'.result.data = [name |-> cache[cur.client][cur.ip]]
           /\ UNCHANGED <<pending, fetches, rateLimitCount, cache>> ]_vars

\* two calls of one client for one address are suspended at once, both
\* counted in the same window
C25_Witness ==
  /\ returned.op = "fetch"
  /\ ~returned.reset
  /\ Fetching(returned.client, returned.ip) = 2
  /\ rateLimitCount[returned.client] = 2
  /\ fetches[returned.client] = 2
  /\ cache[returned.client][returned.ip] = NoName


====
